---- MODULE Spec2Model ----
(***************************************************************************)
(* A model of godesim: the state package (State, Clone, XEqual ...), the   *)
(* Timespan, the Simulation driver (Begin, handleEvents, Results), the     *)
(* event actions and the fixed-step solvers.                               *)
(*                                                                         *)
(* float64 values are modelled as exact rationals [n, d] in lowest terms;  *)
(* the only rounding that is modelled is the underflow of a quotient to 0  *)
(* (FloatDiv).  Go slices are (array id, length) pairs into a heap of      *)
(* arrays and Go maps are ids into a heap of maps, so that the aliasing    *)
(* the code creates between State values is the aliasing of the model.     *)
(***************************************************************************)
EXTENDS Integers, Sequences, FiniteSets, TLC

VARIABLES
    pc,          \* position of the caller: "idle", "loop", "events", "done", "panic"
    heap,        \* [arrs, maps, panic, diffEvals, inputEvals]: the backing arrays of
                 \* the slices, the Go maps, whether the call panicked, and how many
                 \* Diff and Input functions the current Begin has evaluated
    Timespan,    \* Simulation.Timespan: [start, end, steps, stepLength]
    State,       \* Simulation.State (the struct: map ids, slice headers, time)
    currentStep, \* Simulation.currentStep
    results,     \* Simulation.results: sequence of State structs
    Solver,      \* Simulation.Solver: "nil", "RK4", "RKF45", "DormandPrince"
    change,      \* Simulation.change: Symbol -> Diff function name
    Diffs,       \* Simulation.Diffs: sequence of Diff function names
    inputs,      \* Simulation.inputs: Symbol -> Input function name
    eventers,    \* Simulation.eventers: sequence of handlers
    events,      \* Simulation.events: sequence of [Label, State]
    Config,      \* Simulation.Config: [Domain, Steps, NoOrdering] (Steps is Algorithm.Steps)
    evIdx,       \* handleEvents: the loop index i
    eventsOn,    \* Begin: the local eventsOn
    trace,       \* observations of the run (calls made, evaluations, last event)
    call         \* the call under study of a pure function, and what it returned

vars == <<pc, heap, Timespan, State, currentStep, results, Solver, change, Diffs,
          inputs, eventers, events, Config, evIdx, eventsOn, trace, call>>

-----------------------------------------------------------------------------
(* Bounds of the model.                                                     *)

MaxEnd == 2
MaxSteps == 2
MaxAlgSteps == 2
MaxBegins == 2
MaxCopyCalls == 2

-----------------------------------------------------------------------------
(* float64 as rationals.                                                    *)

\* Op of the value e: a local value that is used more than once
With(e, Op(_)) == CHOOSE r \in {Op(x) : x \in {e}} : TRUE

Abs(i) == IF i < 0 THEN -i ELSE i

RECURSIVE GCD(_, _)
GCD(a, b) == IF b = 0 THEN a ELSE GCD(b, a % b)

R(n, d) ==
    LET g == GCD(Abs(n), Abs(d))
        sg == IF d < 0 THEN -1 ELSE 1
    IN  IF n = 0 THEN [n |-> 0, d |-> 1]
        ELSE [n |-> sg * (n \div g), d |-> sg * (d \div g)]

I(n) == [n |-> n, d |-> 1]
Zero == I(0)
One == I(1)

RAdd(a, b) ==
    LET g == GCD(a.d, b.d)
        l == (a.d \div g) * b.d
    IN  R(a.n * (l \div a.d) + b.n * (l \div b.d), l)

RNeg(a) == [n |-> -a.n, d |-> a.d]
RSub(a, b) == RAdd(a, RNeg(b))

RMul(a, b) ==
    LET g1 == GCD(Abs(a.n), b.d)
        g2 == GCD(Abs(b.n), a.d)
    IN  IF a.n = 0 \/ b.n = 0 THEN Zero
        ELSE [n |-> (a.n \div g1) * (b.n \div g2), d |-> (a.d \div g2) * (b.d \div g1)]

RInv(a) == IF a.n < 0 THEN [n |-> -a.d, d |-> -a.n] ELSE [n |-> a.d, d |-> a.n]
RDiv(a, b) == RMul(a, RInv(b))

RLt(a, b) == a.n * b.d < b.n * a.d
RLe(a, b) == a.n * b.d <= b.n * a.d

RCeil_m(a) == a.n \div a.d

\* math.Ceil of a rational, as an integer
RCeil(a) == IF a.n % a.d = 0 THEN a.n \div a.d ELSE (a.n \div a.d) + 1

\* math.SmallestNonzeroFloat64, scaled: the least positive value of the model
SmallestNonzeroFloat64 == R(1, 1000)

\* the quotient a / b of two float64: exact, except that a quotient of at
\* most half the least positive value rounds to 0 (ties to even) and one
\* below the least positive value rounds up to it
FloatDiv(a, b) ==
    With(RDiv(a, b), LAMBDA q :
        IF RLe([n |-> 2 * Abs(q.n), d |-> q.d], SmallestNonzeroFloat64) THEN Zero
        ELSE IF RLt([n |-> Abs(q.n), d |-> q.d], SmallestNonzeroFloat64)
             THEN (IF q.n < 0 THEN RNeg(SmallestNonzeroFloat64) ELSE SmallestNonzeroFloat64)
             ELSE q)

-----------------------------------------------------------------------------
(* Symbols.  SymOrder lists them in the order sort.Strings gives.           *)

SymOrder == <<"theta", "time", "u", "unknown", "v", "w">>
Symbols == {SymOrder[i] : i \in 1..Len(SymOrder)}

Range(s) == {s[i] : i \in 1..Len(s)}

\* all orders in which a range loop may visit the keys of a Go map
Orders(S) == {p \in [1..Cardinality(S) -> S] : \A x \in S : \E i \in DOMAIN p : p[i] = x}

EmptyMap == [x \in {} |-> 0]

-----------------------------------------------------------------------------
(* The heap and the state package.                                          *)

NilSlice == [a |-> 0, n |-> 0]
EmptyHeap == [arrs |-> <<>>, maps |-> <<>>, panic |-> FALSE, diffEvals |-> 0, inputEvals |-> 0]
ZeroState == [varmap |-> 0, x |-> NilSlice, inputmap |-> 0, u |-> NilSlice, time |-> Zero]

Throw(H) == [H EXCEPT !.panic = TRUE]

\* a Go map read through its id; the nil map reads as the empty map
MapOf(H, id) == IF id = 0 THEN EmptyMap ELSE H.maps[id]

\* the elements a slice shows
Elems(H, sl) == [i \in 1..sl.n |-> H.arrs[sl.a][i]]

Cap(H, sl) == IF sl.a = 0 THEN 0 ELSE Len(H.arrs[sl.a])

\* make([]float64, n) holding the values vals
AllocArr(H, vals) ==
    [H |-> [H EXCEPT !.arrs = Append(@, vals)], sl |-> [a |-> Len(H.arrs) + 1, n |-> Len(vals)]]

\* append(sl, 0): in place while capacity lasts, else into a new array of
\* doubled capacity
AppendZero(H, sl) ==
    IF sl.n < Cap(H, sl)
    THEN [H |-> [H EXCEPT !.arrs[sl.a][sl.n + 1] = Zero], sl |-> [a |-> sl.a, n |-> sl.n + 1]]
    ELSE LET newcap == IF sl.n + 1 > 2 * Cap(H, sl) THEN sl.n + 1 ELSE 2 * Cap(H, sl)
             old == Elems(H, sl)
             al == AllocArr(H, [i \in 1..newcap |-> IF i <= sl.n THEN old[i] ELSE Zero])
         IN  [H |-> al.H, sl |-> [a |-> al.sl.a, n |-> sl.n + 1]]

New(H) ==
    [H |-> [H EXCEPT !.maps = @ \o <<EmptyMap, EmptyMap>>],
     s |-> [varmap |-> Len(H.maps) + 1, x |-> NilSlice,
            inputmap |-> Len(H.maps) + 2, u |-> NilSlice, time |-> Zero]]

has(H, s, v, sym) ==
    IF v = "X" THEN sym \in DOMAIN MapOf(H, s.varmap) ELSE sym \in DOMAIN MapOf(H, s.inputmap)

xCreateIfNotExist_m(H, s, sym) ==
    With(AppendZero(H, s.x), LAMBDA ap :
        IF s.varmap = 0 THEN [H |-> Throw(ap.H), s |-> [s EXCEPT !.x = ap.sl]]
        ELSE [H |-> [ap.H EXCEPT !.maps[s.varmap] =
                         [k \in DOMAIN @ \cup {sym} |-> IF k = sym THEN ap.sl.n - 1 ELSE @[k]]],
              s |-> [s EXCEPT !.x = ap.sl]])

\* a write to a nil map panics
xCreateIfNotExist(H, s, sym) ==
    IF sym \in DOMAIN MapOf(H, s.varmap) THEN [H |-> H, s |-> s]
    ELSE With(AppendZero(H, s.x), LAMBDA ap :
             IF s.varmap = 0 THEN [H |-> Throw(ap.H), s |-> [s EXCEPT !.x = ap.sl]]
             ELSE [H |-> [ap.H EXCEPT !.maps[s.varmap] =
                              [k \in DOMAIN @ \cup {sym} |-> IF k = sym THEN ap.sl.n - 1 ELSE @[k]]],
                   s |-> [s EXCEPT !.x = ap.sl]])

uCreateIfNotExist(H, s, sym) ==
    IF sym \in DOMAIN MapOf(H, s.inputmap) THEN [H |-> H, s |-> s]
    ELSE With(AppendZero(H, s.u), LAMBDA ap :
             IF s.inputmap = 0 THEN [H |-> Throw(ap.H), s |-> [s EXCEPT !.u = ap.sl]]
             ELSE [H |-> [ap.H EXCEPT !.maps[s.inputmap] =
                              [k \in DOMAIN @ \cup {sym} |-> IF k = sym THEN ap.sl.n - 1 ELSE @[k]]],
                   s |-> [s EXCEPT !.u = ap.sl]])

\* s.x[idx] = val, idx counted from 0; an index outside the slice panics
SetElem(H, sl, idx, val) ==
    IF idx < 0 \/ idx >= sl.n THEN Throw(H) ELSE [H EXCEPT !.arrs[sl.a][idx + 1] = val]

XEqual(H, s, sym, val) ==
    IF H.panic THEN [H |-> H, s |-> s]
    ELSE With(xCreateIfNotExist(H, s, sym), LAMBDA c :
             IF c.H.panic THEN c
             ELSE [H |-> SetElem(c.H, c.s.x, MapOf(c.H, c.s.varmap)[sym], val), s |-> c.s])

UEqual(H, s, sym, val) ==
    IF H.panic THEN [H |-> H, s |-> s]
    ELSE With(uCreateIfNotExist(H, s, sym), LAMBDA c :
             IF c.H.panic THEN c
             ELSE [H |-> SetElem(c.H, c.s.u, MapOf(c.H, c.s.inputmap)[sym], val), s |-> c.s])

\* XSet and USet throw for a symbol the State does not hold
XSet(H, s, sym, val) ==
    IF H.panic THEN [H |-> H, s |-> s]
    ELSE IF sym \notin DOMAIN MapOf(H, s.varmap) THEN [H |-> Throw(H), s |-> s]
    ELSE XEqual(H, s, sym, val)

USet(H, s, sym, val) ==
    IF H.panic THEN [H |-> H, s |-> s]
    ELSE IF sym \notin DOMAIN MapOf(H, s.inputmap) THEN [H |-> Throw(H), s |-> s]
    ELSE UEqual(H, s, sym, val)

\* the value read, or Bad where the code panics
Bad == [n |-> 0, d |-> 0]

X(H, s, sym) ==
    LET m == MapOf(H, s.varmap)
    IN  IF sym \notin DOMAIN m THEN Bad
        ELSE IF m[sym] >= s.x.n THEN Bad ELSE H.arrs[s.x.a][m[sym] + 1]

U(H, s, sym) ==
    LET m == MapOf(H, s.inputmap)
    IN  IF sym \notin DOMAIN m THEN Bad
        ELSE IF m[sym] >= s.u.n THEN Bad ELSE H.arrs[s.u.a][m[sym] + 1]

Time(s) == s.time

SetTime(s, t) == [s EXCEPT !.time = t]

\* a copy of the elements in a fresh array; the empty slice needs no array
XVector(H, s) == IF s.x.n = 0 THEN [H |-> H, sl |-> NilSlice] ELSE AllocArr(H, Elems(H, s.x))
UVector(H, s) == IF s.u.n = 0 THEN [H |-> H, sl |-> NilSlice] ELSE AllocArr(H, Elems(H, s.u))

Clone(H, s) ==
    With(XVector(H, s), LAMBDA xv :
    With(UVector(xv.H, s), LAMBDA uv :
        [H |-> uv.H,
         s |-> [varmap |-> s.varmap, x |-> xv.sl, inputmap |-> s.inputmap, u |-> uv.sl, time |-> s.time]]))

CloneBlank(H, s, t) ==
    With(IF s.x.n = 0 THEN [H |-> H, sl |-> NilSlice] ELSE AllocArr(H, [i \in 1..s.x.n |-> Zero]), LAMBDA xv :
    With(UVector(xv.H, s), LAMBDA uv :
        [H |-> uv.H,
         s |-> [varmap |-> s.varmap, x |-> xv.sl, inputmap |-> s.inputmap, u |-> uv.sl, time |-> t]]))

\* syms[idx] = sym for every entry of the map: "" where no entry has the
\* index; an index outside the result panics (SymbolsPanic)
SymbolsPanic(m) == \E k \in DOMAIN m : m[k] >= Cardinality(DOMAIN m)

SymbolsOf(m) ==
    [i \in 1..Cardinality(DOMAIN m) |->
        IF \E k \in DOMAIN m : m[k] = i - 1 THEN CHOOSE k \in DOMAIN m : m[k] = i - 1 ELSE ""]

XSymbols(H, s) == SymbolsOf(MapOf(H, s.varmap))
USymbols(H, s) == SymbolsOf(MapOf(H, s.inputmap))

\* TRUE stands for the NaN of the probe vector
ConsistencyX(H, s, question) == [i \in 1..Len(question) |-> ~has(H, s, "X", question[i])]
ConsistencyU(H, s, question) == [i \in 1..Len(question) |-> ~has(H, s, "U", question[i])]

HasNaN(v) == \E i \in 1..Len(v) : v[i]

-----------------------------------------------------------------------------
(* gonum floats, on the X vectors of States.                                *)

WriteAll(H, sl, vals) == [H EXCEPT !.arrs[sl.a] = [i \in 1..Len(@) |-> IF i <= sl.n THEN vals[i] ELSE @[i]]]

\* dst = dst + s
Add(H, dst, s) ==
    IF H.panic THEN H
    ELSE IF dst.x.n # s.x.n THEN Throw(H)
    ELSE IF dst.x.n = 0 THEN H
    ELSE WriteAll(H, dst.x, [i \in 1..dst.x.n |-> RAdd(Elems(H, dst.x)[i], Elems(H, s.x)[i])])

\* dst = dst + alpha * s
AddScaled(H, dst, alpha, s) ==
    IF H.panic THEN H
    ELSE IF dst.x.n # s.x.n THEN Throw(H)
    ELSE IF dst.x.n = 0 THEN H
    ELSE WriteAll(H, dst.x, [i \in 1..dst.x.n |-> RAdd(Elems(H, dst.x)[i], RMul(alpha, Elems(H, s.x)[i]))])

\* dst = y + alpha * s
AddScaledTo(H, dst, y, alpha, s) ==
    IF H.panic THEN H
    ELSE IF dst.x.n # y.x.n \/ y.x.n # s.x.n THEN Throw(H)
    ELSE IF dst.x.n = 0 THEN H
    ELSE WriteAll(H, dst.x, [i \in 1..dst.x.n |-> RAdd(Elems(H, y.x)[i], RMul(alpha, Elems(H, s.x)[i]))])

\* dst = s + t
AddTo(H, dst, s, t) ==
    IF H.panic THEN H
    ELSE IF dst.x.n # s.x.n \/ s.x.n # t.x.n THEN Throw(H)
    ELSE IF dst.x.n = 0 THEN H
    ELSE WriteAll(H, dst.x, [i \in 1..dst.x.n |-> RAdd(Elems(H, s.x)[i], Elems(H, t.x)[i])])

\* dst = c * dst
Scale(H, c, dst) ==
    IF H.panic \/ dst.x.n = 0 THEN H
    ELSE WriteAll(H, dst.x, [i \in 1..dst.x.n |-> RMul(c, Elems(H, dst.x)[i])])

-----------------------------------------------------------------------------
(* The functions a user supplies, by name.  Each is a pure function of the *)
(* State it is given; Bad where the call panics.                            *)

DiffFns == {"one", "U_u", "X_w", "time"}
InputFns == {"one", "time", "U_v"}

EvalFn(f, H, s) ==
    CASE f = "one" -> One
      [] f = "U_u" -> U(H, s, "u")
      [] f = "U_v" -> U(H, s, "v")
      [] f = "X_w" -> X(H, s, "w")
      [] f = "time" -> Time(s)
      [] OTHER -> Bad

-----------------------------------------------------------------------------
(* StateDiff.                                                               *)

DiffArg_m(S, diff) == diff

\* the state a Diff function of StateDiff is evaluated on
DiffArg(S, diff) == S

\* the loop of StateDiff from index i on
RECURSIVE StateDiffLoop(_, _, _, _, _, _)
StateDiffLoop(H, F, S, syms, diff, i) ==
    IF H.panic \/ i > Len(F) THEN [H |-> H, s |-> diff]
    ELSE With(EvalFn(F[i], H, DiffArg(S, diff)), LAMBDA v :
         With([H EXCEPT !.diffEvals = @ + 1], LAMBDA H1 :
             IF v = Bad THEN [H |-> Throw(H1), s |-> diff]
             ELSE With(XEqual(H1, diff, syms[i], v), LAMBDA e :
                      StateDiffLoop(e.H, F, S, syms, e.s, i + 1))))

StateDiff(H, F, S) ==
    IF H.panic THEN [H |-> H, s |-> S]
    ELSE With(Clone(H, S), LAMBDA c :
         With(MapOf(H, S.varmap), LAMBDA m :
             IF SymbolsPanic(m) THEN [H |-> Throw(c.H), s |-> c.s]
             ELSE IF Len(F) # Len(SymbolsOf(m)) THEN [H |-> Throw(c.H), s |-> c.s]
             ELSE StateDiffLoop(c.H, F, S, SymbolsOf(m), c.s, 1)))

-----------------------------------------------------------------------------
(* Timespan.                                                                *)

ZeroTimespan == [start |-> Zero, end |-> Zero, steps |-> 0, stepLength |-> Zero]

\* the step length newTimespan computes
StepLengthOf(Start, End, Steps) == FloatDiv(RSub(End, Start), I(Steps))

TimespanThrows_m(Start, End, Steps) == RLe(End, Start) \/ Steps < 1

\* whether newTimespan throws
TimespanThrows(Start, End, Steps) ==
    \/ RLe(End, Start)
    \/ Steps < 1
    \/ StepLengthOf(Start, End, Steps) = Zero

newTimespan(Start, End, Steps) ==
    [start |-> Start, end |-> End, steps |-> Steps, stepLength |-> StepLengthOf(Start, End, Steps)]

Len_(ts) == ts.steps
Dt(ts) == ts.stepLength
End(ts) == ts.end

-----------------------------------------------------------------------------
(* Solvers.  A solver is given the heap, Simulation.Diffs, Simulation.State,*)
(* Dt() and Algorithm.Steps and returns the heap and the states slice.      *)

\* CloneBlank of st at each of the times, in their order
RECURSIVE Blanks(_, _, _, _)
Blanks(H, st, times, blanks) ==
    IF Len(blanks) = Len(times) THEN [H |-> H, blanks |-> blanks]
    ELSE With(CloneBlank(H, st, times[Len(blanks) + 1]), LAMBDA c :
             Blanks(c.H, st, times, Append(blanks, c.s)))

\* AddScaledTo(dst, st, row[1].a, ks[row[1].k]), then AddScaled(dst, row[j].a,
\* ks[row[j].k]) for the other entries of the row
RECURSIVE Combine(_, _, _, _, _, _)
Combine(H, dst, st, row, ks, j) ==
    IF j > Len(row) THEN H
    ELSE Combine(IF j = 1 THEN AddScaledTo(H, dst, st, row[j].a, ks[row[j].k])
                 ELSE AddScaled(H, dst, row[j].a, ks[row[j].k]),
                 dst, st, row, ks, j + 1)

\* the stages of a Runge-Kutta step: the first is StateDiff of st, stage i + 1
\* is StateDiff of blanks[i] after it is filled by rows[i]; scale is h where
\* the solver scales each stage by h (RKF45) and 0 where it does not (RK4)
RECURSIVE Stages(_, _, _, _, _, _, _)
Stages(H, F, st, rows, scale, blanks, ks) ==
    IF H.panic \/ Len(ks) > Len(rows) THEN [H |-> H, ks |-> ks]
    ELSE With(IF Len(ks) = 0 THEN StateDiff(H, F, st)
              ELSE StateDiff(Combine(H, blanks[Len(ks)], st, rows[Len(ks)], ks, 1), F, blanks[Len(ks)]),
              LAMBDA k :
                  Stages(IF scale = Zero THEN k.H ELSE Scale(k.H, scale, k.s),
                         F, st, rows, scale, blanks, Append(ks, k.s)))

Term(k, a) == [k |-> k, a |-> a]

\* one pass of the loop body of RK4Solver: states[i+1] from st = states[i];
\* the stages a, b, c, d are ks[1..4]
RK4Step(H, F, st, h) ==
    With(Blanks(H, st, <<RAdd(Time(st), RMul(R(1, 2), h)), RAdd(Time(st), RMul(R(1, 2), h)),
                         RAdd(Time(st), h)>>, <<>>), LAMBDA bl :
    With(Stages(bl.H, F, st,
                <<<<Term(1, RMul(R(1, 2), h))>>, <<Term(2, RMul(R(1, 2), h))>>, <<Term(3, h)>>>>,
                Zero, bl.blanks, <<>>), LAMBDA r :
        IF r.H.panic THEN [H |-> r.H, s |-> st]
        ELSE With(Clone(AddScaled(Add(Add(r.H, r.ks[1], r.ks[4]), r.ks[2], r.ks[3]),
                                  r.ks[1], I(2), r.ks[2]), st), LAMBDA n :
                 [H |-> AddScaled(n.H, n.s, RMul(h, R(1, 6)), r.ks[1]),
                  s |-> SetTime(n.s, RAdd(h, Time(st)))])))

\* the Butcher tableau of RKF45Solver: c20..c60, the rows c21..c65, and the
\* fifth order weights b1, b3, b4, b5, b6
RKF45Times == <<R(1, 4), R(3, 8), R(12, 13), I(1), R(1, 2)>>
RKF45Rows ==
    << <<Term(1, R(1, 4))>>,
       <<Term(1, R(3, 32)), Term(2, R(9, 32))>>,
       <<Term(1, R(1932, 2197)), Term(2, R(-7200, 2197)), Term(3, R(7296, 2197))>>,
       <<Term(1, R(439, 216)), Term(2, I(-8)), Term(3, R(3680, 513)), Term(4, R(-845, 4104))>>,
       <<Term(1, R(-8, 27)), Term(2, I(2)), Term(3, R(-3544, 2565)), Term(4, R(1859, 4104)),
         Term(5, R(-11, 40))>> >>
RKF45Fifth ==
    <<Term(1, R(16, 135)), Term(3, R(6656, 12825)), Term(4, R(28561, 56430)), Term(5, R(-9, 50)),
      Term(6, R(2, 55))>>

\* one pass of the loop body of RKF45Solver without adaptive stepping; the
\* blank states are k2..k6, s4, s5 and err45
RKF45Step(H, F, st, h) ==
    With(Blanks(H, st, [i \in 1..8 |-> IF i <= 5 THEN RAdd(Time(st), RMul(RKF45Times[i], h))
                                      ELSE RAdd(Time(st), h)], <<>>), LAMBDA bl :
    With(Stages(bl.H, F, st, RKF45Rows, h, bl.blanks, <<>>), LAMBDA r :
        IF r.H.panic THEN [H |-> r.H, s |-> st]
        ELSE Clone(Combine(r.H, bl.blanks[7], st, RKF45Fifth, r.ks, 1), bl.blanks[7])))

SolverStep(solver, H, F, st, h) ==
    IF solver = "RKF45" THEN RKF45Step(H, F, st, h) ELSE RK4Step(H, F, st, h)

\* the loop of a solver: states holds states[0..i], i < steps
RECURSIVE SolverLoop(_, _, _, _, _, _)
SolverLoop(solver, H, F, states, h, steps) ==
    IF H.panic \/ Len(states) > steps THEN [H |-> H, states |-> states]
    ELSE With(SolverStep(solver, H, F, states[Len(states)], h), LAMBDA r :
             SolverLoop(solver, r.H, F, Append(states, r.s), h, steps))

\* the loop of DirectIntegrationSolver: y is the clone of sim.State made
\* before the loop, dydx the derivative of the pass before, t the time
RECURSIVE DirectIntegrationLoop(_, _, _, _, _, _, _, _, _)
DirectIntegrationLoop(H, F, S, y, dydx, t, h, states, steps) ==
    IF H.panic \/ Len(states) > steps THEN [H |-> H, states |-> states]
    ELSE With(CloneBlank(H, S, RAdd(t, h)), LAMBDA ynext :
         With(StateDiff(ynext.H, F, y), LAMBDA dydxnext :
         With(CloneBlank(dydxnext.H, y, Time(y)), LAMBDA aux :
         With(Clone(AddScaledTo(AddTo(aux.H, aux.s, dydxnext.s, dydx), ynext.s, y, RMul(h, R(1, 2)), aux.s),
                    ynext.s), LAMBDA c :
             DirectIntegrationLoop(c.H, F, S, y, dydxnext.s, RAdd(t, h), h, Append(states, c.s), steps)))))

DirectIntegrationSolver(H, F, S, now, h, steps) ==
    With(Clone(H, S), LAMBDA s0 :
    With(Clone(s0.H, S), LAMBDA y :
    With(StateDiff(y.H, F, S), LAMBDA dydx :
        DirectIntegrationLoop(dydx.H, F, S, y.s, dydx.s, now, h, <<s0.s>>, steps))))

\* Solver(sim): a nil Solver panics when called; now is sim.CurrentTime()
Solve(solver, H, F, S, now, dt, steps) ==
    IF solver = "nil" THEN [H |-> Throw(H), states |-> <<S>>]
    ELSE IF solver = "DirectIntegration"
    THEN DirectIntegrationSolver(H, F, S, now, FloatDiv(dt, I(steps)), steps)
    ELSE With(Clone(H, S), LAMBDA c :
             SolverLoop(solver, c.H, F, <<c.s>>, FloatDiv(dt, I(steps)), steps))

-----------------------------------------------------------------------------
(* The Simulation: construction and configuration.                          *)

Last(q) == q[Len(q)]

CurrentTime(res) == Time(Last(res))

DefaultConfig == [Domain |-> "time", Steps |-> 1, NoOrdering |-> FALSE]

NoStepLength == [on |-> FALSE, t0 |-> Zero, h |-> Zero]
NoEnd == [on |-> FALSE, t |-> Zero]
NoCall == [fn |-> "none"]
\* the message of a panic of verifyPreBegin: the symbol and the number it names
NoFailure == [text |-> "", sym |-> "", cases |-> 0]

\* trace: op is the operation of a run taken last, begins and solverCalls count the
\* calls of Begin and of the Solver, start0, end0 and dt0 are the start, the end
\* and the step length SetTimespan gave, stepLength describes the NewStepLength
\* that changed the Timespan (at time t0, to h), ended the EndSimulation that was
\* applied (at time t), failure the message the last Begin panicked with, invoked the handlers handleEvents has invoked in the
\* pass it is in, fired those whose Event method returned an action
InitTrace == [op |-> "New", begins |-> 0, solverCalls |-> 0, start0 |-> Zero, end0 |-> Zero,
              dt0 |-> Zero, stepLength |-> NoStepLength, ended |-> NoEnd, invoked |-> {}, fired |-> {},
              failure |-> NoFailure]

\* New()
Init ==
    /\ pc = "idle"
    /\ heap = EmptyHeap
    /\ Timespan = ZeroTimespan
    /\ State = ZeroState
    /\ currentStep = 0
    /\ results = <<>>
    /\ Solver = "RK4"
    /\ change = EmptyMap
    /\ Diffs = <<>>
    /\ inputs = EmptyMap
    /\ eventers = <<>>
    /\ events = <<>>
    /\ Config = DefaultConfig
    /\ evIdx = 0
    /\ eventsOn = FALSE
    /\ trace = InitTrace
    /\ call = NoCall

\* the maps, Timespans, Configs and handlers the caller configures with
X0Maps == {[k \in {"theta"} |-> Zero], [k \in {"theta", "w"} |-> Zero]}

DiffMaps == {[k \in {"theta"} |-> "U_u"],
             [k \in {"theta", "w"} |-> IF k = "theta" THEN "X_w" ELSE "one"],
             [k \in {"w"} |-> "one"],
             [k \in {"v", "w"} |-> "one"]}

InputMaps == {[k \in {"u"} |-> "one"], [k \in {"u"} |-> "time"],
              [k \in {"u", "v"} |-> IF k = "u" THEN "U_v" ELSE "one"]}

TimespanArgs == {<<I(a), I(b), n>> : a \in 0..1, b \in 1..MaxEnd, n \in 1..MaxSteps}
ValidTimespanArgs == {a \in TimespanArgs : ~TimespanThrows(a[1], a[2], a[3])}

Configs == {[DefaultConfig EXCEPT !.Steps = n] : n \in 0..MaxAlgSteps}
             \cup {[DefaultConfig EXCEPT !.Domain = ""], [DefaultConfig EXCEPT !.NoOrdering = TRUE]}

Solvers == {"nil", "RK4", "RKF45", "DirectIntegration"}

\* the symbols Results is asked for
ResultSymbols == {"time", "theta", "w", "u", "unknown"}

Handler(label, at, act, h, newDiff) == [Label |-> label, at |-> at, act |-> act, h |-> h, newDiff |-> newDiff]

endsim == Handler("end sim", I(1), "EndSimulation", Zero, EmptyMap)
refineHalf == Handler("refine", R(1, 2), "NewStepLength", R(1, 2), EmptyMap)
refineOdd == Handler("refine", R(1, 2), "NewStepLength", R(3, 4), EmptyMap)
swap == Handler("change derivative", R(1, 2), "DiffChangeFromMap", Zero, [k \in {"theta"} |-> "one"])
badEvent == Handler("change derivative", R(1, 2), "DiffChangeFromMap", Zero, [k \in {"theta", "unknown"} |-> "one"])
swapInput == Handler("change input", R(1, 2), "DiffChangeFromMap", Zero, [k \in {"u"} |-> "time"])
remover == Handler("remove", R(1, 2), "ErrorRemove", Zero, EmptyMap)
marker == Handler("mark", I(1), "EventDone", Zero, EmptyMap)

HandlerLists == {<<endsim>>, <<refineHalf>>, <<refineOdd>>, <<refineOdd, endsim>>, <<endsim, refineHalf>>,
                 <<swap>>, <<badEvent>>, <<swapInput>>, <<remover, marker>>}

SetX0FromMap(m) ==
    /\ pc = "idle"
    /\ State = ZeroState
    /\ \E order \in Orders(DOMAIN m) :
          LET RECURSIVE Fill(_, _, _)
              Fill(H, st, i) ==
                  IF i > Len(order) THEN [H |-> H, s |-> st]
                  ELSE LET e == XEqual(H, st, order[i], m[order[i]])
                       IN  Fill(e.H, e.s, i + 1)
              n == New(heap)
              f == Fill(n.H, n.s, 1)
          IN  /\ heap' = f.H
              /\ State' = f.s
    /\ UNCHANGED <<trace, pc, Timespan, currentStep, results, Solver, change, Diffs, inputs, eventers,
                   events, Config, evIdx, eventsOn, call>>

SetDiffFromMap(m) ==
    /\ pc = "idle"
    /\ change = EmptyMap
    /\ change' = m
    /\ UNCHANGED <<trace, pc, heap, Timespan, State, currentStep, results, Solver, Diffs, inputs, eventers,
                   events, Config, evIdx, eventsOn, call>>

\* the runs with several Inputs are enumerated for the RK4Solver, the default
\* Config and no handlers
SetInputFromMap(m) ==
    /\ pc = "idle"
    /\ inputs = EmptyMap
    /\ Cardinality(DOMAIN m) <= 1 \/ (eventers = <<>> /\ Solver = "RK4" /\ Config = DefaultConfig)
    /\ inputs' = m
    /\ UNCHANGED <<trace, pc, heap, Timespan, State, currentStep, results, Solver, change, Diffs, eventers,
                   events, Config, evIdx, eventsOn, call>>

SetTimespan(Start, End_, Steps) ==
    /\ pc = "idle"
    /\ Timespan = ZeroTimespan
    /\ Timespan' = newTimespan(Start, End_, Steps)
    /\ trace' = [trace EXCEPT !.start0 = Start, !.end0 = End_, !.dt0 = Timespan'.stepLength]
    /\ UNCHANGED <<pc, heap, State, currentStep, results, Solver, change, Diffs, inputs, eventers,
                   events, Config, evIdx, eventsOn, call>>

\* the runs with handlers are enumerated for the RK4Solver and the Configs
\* that differ from the default in Algorithm.Steps alone
StepsOnly(cfg) == cfg.Domain = DefaultConfig.Domain /\ cfg.NoOrdering = DefaultConfig.NoOrdering /\ cfg.Steps >= 1

SetConfig(cfg) ==
    /\ pc = "idle"
    /\ Config = DefaultConfig
    /\ eventers = <<>> \/ StepsOnly(cfg)
    /\ Cardinality(DOMAIN inputs) <= 1
    /\ Config' = cfg
    /\ UNCHANGED <<trace, pc, heap, Timespan, State, currentStep, results, Solver, change, Diffs, inputs,
                   eventers, events, evIdx, eventsOn, call>>

SetSolver(f) ==
    /\ pc = "idle"
    /\ Solver = "RK4"
    /\ eventers = <<>>
    /\ Cardinality(DOMAIN inputs) <= 1
    /\ Solver' = f
    /\ UNCHANGED <<trace, pc, heap, Timespan, State, currentStep, results, change, Diffs, inputs,
                   eventers, events, Config, evIdx, eventsOn, call>>

AddEventHandlers(evhand) ==
    /\ pc = "idle"
    /\ eventers = <<>>
    /\ Solver = "RK4" /\ StepsOnly(Config)
    /\ Cardinality(DOMAIN inputs) <= 1
    /\ eventers' = eventers \o evhand
    /\ UNCHANGED <<trace, pc, heap, Timespan, State, currentStep, results, Solver, change, Diffs, inputs,
                   events, Config, evIdx, eventsOn, call>>

-----------------------------------------------------------------------------
(* Begin, up to its loop.  The parts of Begin work on a record b of the     *)
(* fields they change: [H, State, Diffs, results, events].                  *)

IsRunning_m(step, ts, st) == RLt(RAdd(Time(st), RMul(ts.stepLength, R(9, 10))), ts.end)

IsRunning(step, ts, st) ==
    IF step < 0 THEN FALSE
    ELSE RLt(RAdd(Time(st), RMul(Dt(ts), R(9, 10))), ts.end)

\* for sym := range sim.inputs { sim.State.UEqual(sym, 0) }, in the order given
RECURSIVE ZeroInputs(_, _, _, _)
ZeroInputs(H, st, order, i) ==
    IF H.panic \/ i > Len(order) THEN [H |-> H, s |-> st]
    ELSE With(UEqual(H, st, order[i], Zero), LAMBDA e : ZeroInputs(e.H, e.s, order, i + 1))

\* the loop of setInputs, in the order given
RECURSIVE setInputsLoop(_, _, _, _, _)
setInputsLoop(H, st, ins, order, i) ==
    IF H.panic \/ i > Len(order) THEN [H |-> H, s |-> st]
    ELSE With(EvalFn(ins[order[i]], H, st), LAMBDA v :
         With([H EXCEPT !.inputEvals = @ + 1], LAMBDA H1 :
             IF v = Bad THEN [H |-> Throw(H1), s |-> st]
             ELSE With(UEqual(H1, st, order[i], v), LAMBDA e :
                      setInputsLoop(e.H, e.s, ins, order, i + 1))))

setInputs(H, st, ins, order) ==
    IF Cardinality(DOMAIN ins) = 0 THEN [H |-> H, s |-> st]
    ELSE setInputsLoop(H, st, ins, order, 1)

\* the work Begin does before it verifies anything
BeginInputs(H, st, ins, o1, o2) ==
    With(ZeroInputs(H, st, o1, 1), LAMBDA z : setInputs(z.H, z.s, ins, o2))

verifyConfig(cfg) == cfg.Domain = "" \/ cfg.Steps < 1

\* whether verify throws: no X symbol, no Timespan, no Solver, or a key of
\* the Diff map that is no X symbol of the State
verify(H, st, ts, solver, chg) ==
    \/ Cardinality(DOMAIN MapOf(H, st.varmap)) = 0
    \/ Len_(ts) = 0
    \/ solver = "nil"
    \/ \E sym \in DOMAIN chg : ~has(H, st, "X", sym)

\* the message verify throws with; symsX is diffSymbols(), the keys of the
\* Diff map in the order the map is ranged over
verifyMessage(H, st, ts, solver, symsX) ==
    IF Cardinality(DOMAIN MapOf(H, st.varmap)) = 0
    THEN [NoFailure EXCEPT !.text = "Simulation: no X Symbols defined"]
    ELSE IF Len_(ts) = 0
    THEN [NoFailure EXCEPT !.text = "Simulation: no step (time) vector defined"]
    ELSE IF solver = "nil"
    THEN [NoFailure EXCEPT !.text = "Simulation: expected Simulation.Solver. got nil"]
    ELSE With(SelectSeq(symsX, LAMBDA k : ~has(H, st, "X", k)), LAMBDA nan :
             [text |-> "Simulation: X State is inconsistent for %v and %d cases",
              sym |-> nan[1], cases |-> Len(nan) - 1])

ResultsNotEmpty_m(res) == FALSE

ResultsNotEmpty(res) == Len(res) > 0

\* orderedState: a new State with the X symbols sorted
RECURSIVE CopyX(_, _, _, _, _)
CopyX(H, newS, s, syms, i) ==
    IF i > Len(syms) THEN [H |-> H, s |-> newS]
    ELSE With(XEqual(H, newS, syms[i], X(H, s, syms[i])), LAMBDA e : CopyX(e.H, e.s, s, syms, i + 1))

RECURSIVE CopyU(_, _, _, _, _)
CopyU(H, newS, s, syms, i) ==
    IF i > Len(syms) THEN [H |-> H, s |-> newS]
    ELSE With(UEqual(H, newS, syms[i], U(H, s, syms[i])), LAMBDA e : CopyU(e.H, e.s, s, syms, i + 1))

orderedState(H, s) ==
    With(New(H), LAMBDA n :
    With(CopyX(n.H, n.s, s, SelectSeq(SymOrder, LAMBDA k : k \in Range(XSymbols(H, s))), 1), LAMBDA cx :
    With(CopyU(cx.H, cx.s, s, USymbols(H, s), 1), LAMBDA cu :
        [H |-> cu.H, s |-> SetTime(cu.s, Time(s))])))

DiffsLen_m(chg, syms) == Len(syms)

\* the length of the slice setDiffs makes
DiffsLen(chg, syms) == Cardinality(DOMAIN chg)

\* setDiffs: Diffs[i] = change[sym] for the i-th X symbol; an index beyond
\* the slice panics, a symbol without entry yields the nil function
setDiffs(chg, syms) ==
    LET n == DiffsLen(chg, syms)
    IN  [panic |-> Len(syms) > n,
         Diffs |-> [i \in 1..n |-> IF i <= Len(syms) /\ syms[i] \in DOMAIN chg
                                    THEN chg[syms[i]] ELSE "nil"]]

verifyPreBegin(b, cfg, ts, solver, chg, symsX) ==
    IF b.H.panic THEN b
    ELSE IF verifyConfig(cfg)
    THEN [b EXCEPT !.H = Throw(@), !.msg = [NoFailure EXCEPT !.text = "verifyConfig"]]
    ELSE IF verify(b.H, b.State, ts, solver, chg)
    THEN [b EXCEPT !.H = Throw(@), !.msg = verifyMessage(b.H, b.State, ts, solver, symsX)]
    ELSE IF ResultsNotEmpty(b.results)
    THEN [b EXCEPT !.H = Throw(@),
                   !.msg = [NoFailure EXCEPT !.text = "Simulation.Begin(): Simulation results not empty"]]
    ELSE With(IF cfg.NoOrdering THEN [H |-> b.H, s |-> b.State] ELSE orderedState(b.H, b.State), LAMBDA o :
         With(setDiffs(chg, XSymbols(o.H, o.s)), LAMBDA d :
             [b EXCEPT !.H = IF d.panic THEN Throw(o.H) ELSE o.H,
                       !.State = o.s,
                       !.Diffs = d.Diffs,
                       !.msg = IF d.panic
                               THEN [NoFailure EXCEPT !.text = "runtime error: index out of range"]
                               ELSE NoFailure]))

BeginCall_m(o1, o2, symsX) ==
    With(BeginInputs([heap EXCEPT !.panic = FALSE, !.diffEvals = 0, !.inputEvals = 0],
                     State, inputs, o1, o2), LAMBDA i :
    With(verifyPreBegin([H |-> i.H, State |-> i.s, Diffs |-> Diffs, results |-> results,
                         events |-> events, msg |-> NoFailure],
                        Config, Timespan, Solver, change, symsX), LAMBDA b1 :
        IF b1.H.panic THEN b1
        ELSE [b1 EXCEPT !.results = <<i.s>>, !.events = <<>>]))

\* Begin from its first line to the test of its loop
BeginCall(o1, o2, symsX) ==
    With(BeginInputs([heap EXCEPT !.panic = FALSE, !.diffEvals = 0, !.inputEvals = 0],
                     State, inputs, o1, o2), LAMBDA i :
    With(verifyPreBegin([H |-> i.H, State |-> i.s, Diffs |-> Diffs, results |-> results,
                         events |-> events, msg |-> NoFailure],
                        Config, Timespan, Solver, change, symsX), LAMBDA b1 :
        IF b1.H.panic THEN b1
        ELSE [b1 EXCEPT !.results = <<b1.State>>, !.events = <<>>]))

Begin ==
    /\ pc \in {"idle", "done", "panic"}
    /\ trace.begins < MaxBegins
    /\ \E o1, o2 \in Orders(DOMAIN inputs), symsX \in Orders(DOMAIN change) :
          \E b \in {BeginCall(o1, o2, symsX)} :
              /\ trace' = [trace EXCEPT !.op = "Begin", !.begins = @ + 1, !.failure = b.msg]
              /\ heap' = b.H
              /\ State' = b.State
              /\ Diffs' = b.Diffs
              /\ results' = b.results
              /\ events' = b.events
              /\ eventsOn' = IF b.H.panic THEN eventsOn ELSE Len(eventers) > 0
              /\ pc' = IF b.H.panic THEN "panic"
                       ELSE IF IsRunning(currentStep, Timespan, b.State) THEN "loop" ELSE "done"
    /\ call' = NoCall
    /\ UNCHANGED <<Timespan, currentStep, Solver, change, inputs, eventers, Config, evIdx>>

-----------------------------------------------------------------------------
(* The loop of Begin: one pass is the Solver, the append to the results,    *)
(* setInputs and then handleEvents, one handler at a time.                  *)

\* where Begin stands after a pass: in its loop or returned
AfterPass(step, ts, st) == IF IsRunning(step, ts, st) THEN "loop" ELSE "done"

Step ==
    /\ pc = "loop"
    /\ currentStep' = currentStep + 1
    /\ \E order \in Orders(DOMAIN inputs) :
          \E sol \in {Solve(Solver, heap, Diffs, State, CurrentTime(results), Dt(Timespan), Config.Steps)} :
          \E in \in {setInputs(sol.H, Last(sol.states), inputs, order)} :
              IF sol.H.panic
              THEN /\ heap' = sol.H
                   /\ pc' = "panic"
                   /\ UNCHANGED <<State, results>>
              ELSE /\ heap' = in.H
                   /\ results' = results \o Tail(sol.states)
                   /\ State' = in.s
                   /\ pc' = IF in.H.panic THEN "panic"
                            ELSE IF eventsOn /\ Len(eventers) > 0 THEN "events"
                            ELSE AfterPass(currentStep', Timespan, in.s)
    /\ evIdx' = 0
    /\ trace' = [trace EXCEPT !.op = "Step", !.solverCalls = @ + 1, !.invoked = {}]
    /\ UNCHANGED <<Timespan, Solver, change, Diffs, inputs, eventers, events, Config, eventsOn, call>>

DiffChangeFromMap_m(newDiff, F, syms) ==
    [Diffs |-> [i \in 1..Len(F) |-> IF i <= Len(syms) /\ syms[i] \in DOMAIN newDiff
                                     THEN newDiff[syms[i]] ELSE F[i]],
     err |-> "nil"]

\* DiffChangeFromMap(newDiff): the Diffs after the loop, and whether every
\* symbol of newDiff was applied
DiffChangeFromMap(newDiff, F, syms) ==
    LET applied == Cardinality({i \in 1..Len(syms) : syms[i] \in DOMAIN newDiff})
    IN  [Diffs |-> [i \in 1..Len(F) |-> IF i <= Len(syms) /\ syms[i] \in DOMAIN newDiff
                                         THEN newDiff[syms[i]] ELSE F[i]],
         err |-> IF applied # Cardinality(DOMAIN newDiff) THEN "error" ELSE "nil"]

NewStepLengthArgs_m(h, ts, res) ==
    <<Time(res[Len(res)]), ts.end, RCeil(FloatDiv(RSub(ts.end, Time(res[Len(res)])), h))>>

\* NewStepLength(h): the arguments it gives SetTimespan
NewStepLengthArgs(h, ts, res) ==
    With(RCeil(FloatDiv(RSub(End(ts), CurrentTime(res)), h)), LAMBDA steps :
        <<CurrentTime(res), RAdd(CurrentTime(res), RMul(I(steps), h)), steps>>)

\* ev(sim) for the action a handler returned: the error it returns, whether
\* it panics, and the fields of the Simulation it changes
Apply(handler, F, ts, step, st, res, H) ==
    LET same == [err |-> "nil", panic |-> FALSE, Diffs |-> F, Timespan |-> ts, currentStep |-> step]
    IN  CASE handler.act = "EndSimulation" -> [same EXCEPT !.currentStep = -1]
          [] handler.act = "EventDone" -> same
          [] handler.act = "ErrorRemove" -> [same EXCEPT !.err = "remove"]
          [] handler.act = "DiffChangeFromMap" ->
                With(DiffChangeFromMap(handler.newDiff, F, XSymbols(H, st)), LAMBDA d :
                    [same EXCEPT !.Diffs = d.Diffs, !.err = d.err])
          [] handler.act = "NewStepLength" ->
                IF ~IsRunning(step, ts, st) THEN same
                ELSE With(NewStepLengthArgs(handler.h, ts, res), LAMBDA a :
                         IF TimespanThrows(a[1], a[2], a[3]) THEN [same EXCEPT !.panic = TRUE]
                         ELSE [same EXCEPT !.Timespan = newTimespan(a[1], a[2], a[3])])

RemoveAt_m(q, i) == SubSeq(q, 1, Len(q) - 1)

\* append(sim.eventers[:i], sim.eventers[i+1:]...)
RemoveAt(q, i) == [j \in 1..(Len(q) - 1) |-> IF j < i THEN q[j] ELSE q[j + 1]]

NextIndex_m(fires, i) == i + 1

\* the index handleEvents goes on with: i-- after a removal, then i++
NextIndex(fires, i) == IF fires THEN i ELSE i + 1

Recorded_m(fires, a) == fires /\ ~a.panic

\* whether the action is added to the event list: if err == nil
Recorded(fires, a) == fires /\ ~a.panic /\ a.err = "nil"

\* one pass of the loop of handleEvents, for the handler at index evIdx
HandleEvent ==
    /\ pc = "events"
    /\ \E handler \in {eventers[evIdx + 1]} :
       \E fires \in {RLe(handler.at, Time(State))} :
       \E a \in {Apply(handler, Diffs, Timespan, currentStep, State, results, heap)} :
       \E c \in {Clone(heap, State)} :
       \E failed \in {fires /\ (a.panic \/ a.err = "error")} :
       \E left \in {IF fires /\ ~failed THEN RemoveAt(eventers, evIdx + 1) ELSE eventers} :
       \E i \in {NextIndex(fires, evIdx)} :
           /\ Diffs' = IF fires THEN a.Diffs ELSE Diffs
           /\ Timespan' = IF fires THEN a.Timespan ELSE Timespan
           /\ currentStep' = IF fires THEN a.currentStep ELSE currentStep
           /\ IF Recorded(fires, a)
              THEN /\ events' = Append(events, [Label |-> handler.Label, State |-> c.s])
                   /\ heap' = c.H
              ELSE /\ events' = events
                   /\ heap' = IF failed THEN Throw(heap) ELSE heap
           /\ eventers' = left
           /\ evIdx' = i
           /\ pc' = IF failed THEN "panic"
                    ELSE IF i < Len(left) THEN "events"
                    ELSE AfterPass(currentStep', Timespan', State)
           /\ trace' = [trace EXCEPT
                  !.op = "HandleEvent",
                  !.invoked = @ \cup {handler},
                  !.fired = IF fires THEN @ \cup {handler} ELSE @,
                  !.stepLength = IF fires /\ handler.act = "NewStepLength" /\ ~a.panic
                                     /\ IsRunning(currentStep, Timespan, State)
                                  THEN [on |-> TRUE, t0 |-> CurrentTime(results), h |-> handler.h]
                                  ELSE @,
                  !.ended = IF fires /\ handler.act = "EndSimulation"
                            THEN [on |-> TRUE, t |-> Time(State)] ELSE @]
    /\ call' = NoCall
    /\ UNCHANGED <<State, results, Solver, change, inputs, Config, eventsOn>>

-----------------------------------------------------------------------------
(* Results, States and ForEachState.  They are called after Begin returned  *)
(* (pc = "done") or from the Event method of the handler handleEvents is    *)
(* about to invoke (pc = "events"); what they return is held in call until  *)
(* that handler returns.                                                    *)

Namespace_m(sym, domain, consU, consX) == IF consU THEN "U" ELSE IF consX THEN "X" ELSE "none"

\* which namespace Results looks the symbol up in
Namespace(sym, domain, consU, consX) ==
    IF sym = domain THEN "domain"
    ELSE IF consU THEN "U"
    ELSE IF consX THEN "X"
    ELSE "none"

\* Results(sym): the vector returned, or a panic
ResultsOf(sym, H, st, res, cfg) ==
    LET ns == Namespace(sym, cfg.Domain, ~HasNaN(ConsistencyU(H, st, <<sym>>)),
                        ~HasNaN(ConsistencyX(H, st, <<sym>>)))
        vec == [i \in 1..Len(res) |->
                   CASE ns = "domain" -> Time(res[i])
                     [] ns = "U" -> U(H, res[i], sym)
                     [] ns = "X" -> X(H, res[i], sym)
                     [] OTHER -> Bad]
    IN  [panic |-> ns = "none" \/ \E i \in 1..Len(res) : vec[i] = Bad, vec |-> vec]

Results(sym) ==
    /\ pc \in {"events", "done"}
    /\ \E r \in {ResultsOf(sym, heap, State, results, Config)} :
          call' = [fn |-> "Results", sym |-> sym, panic |-> r.panic,
                   ret |-> IF r.panic THEN <<>> ELSE r.vec]
    /\ trace' = [trace EXCEPT !.op = "Results"]
    /\ UNCHANGED <<pc, heap, Timespan, State, currentStep, results, Solver, change, Diffs, inputs,
                   eventers, events, Config, evIdx, eventsOn>>

\* the two throwf of States and of ForEachState
StatesThrows(step, ts, st, res) == IsRunning(step, ts, st) \/ Len(res) = 0

\* States: a Clone of every entry, here the values the copies hold
States ==
    /\ pc \in {"events", "done"}
    /\ \E throws \in {StatesThrows(currentStep, Timespan, State, results)} :
          call' = [fn |-> "States", sym |-> "", panic |-> throws,
                   ret |-> IF throws THEN <<>>
                           ELSE [i \in 1..Len(results) |->
                                    [x |-> Elems(heap, results[i].x), u |-> Elems(heap, results[i].u),
                                     time |-> Time(results[i])]]]
    /\ trace' = [trace EXCEPT !.op = "States"]
    /\ UNCHANGED <<pc, heap, Timespan, State, currentStep, results, Solver, change, Diffs, inputs,
                   eventers, events, Config, evIdx, eventsOn>>

\* ForEachState: f is given the entries themselves
ForEachState ==
    /\ pc \in {"events", "done"}
    /\ \E throws \in {StatesThrows(currentStep, Timespan, State, results)} :
          call' = [fn |-> "ForEachState", sym |-> "", panic |-> throws,
                   ret |-> IF throws THEN <<>> ELSE results]
    /\ trace' = [trace EXCEPT !.op = "ForEachState"]
    /\ UNCHANGED <<pc, heap, Timespan, State, currentStep, results, Solver, change, Diffs, inputs,
                   eventers, events, Config, evIdx, eventsOn>>

-----------------------------------------------------------------------------

Next ==
    \/ \E m \in X0Maps : SetX0FromMap(m)
    \/ \E m \in DiffMaps : SetDiffFromMap(m)
    \/ \E m \in InputMaps : SetInputFromMap(m)
    \/ \E a \in ValidTimespanArgs : SetTimespan(a[1], a[2], a[3])
    \/ \E cfg \in Configs \ {DefaultConfig} : SetConfig(cfg)
    \/ \E f \in Solvers \ {"RK4"} : SetSolver(f)
    \/ \E l \in HandlerLists : AddEventHandlers(l)
    \/ Begin
    \/ Step
    \/ HandleEvent
    \/ \E sym \in ResultSymbols : Results(sym)
    \/ States
    \/ ForEachState

Spec == Init /\ [][Next]_vars

-----------------------------------------------------------------------------
(* newTimespan on its own: Init draws the arguments, the action calls it    *)
(* through SetTimespan.                                                     *)

TsStarts == {I(0), R(1, 2), I(1), I(2)}
TsEnds == {SmallestNonzeroFloat64, R(1, 2), I(1), I(2), I(MaxEnd + 1)}
TsSteps == -1..(MaxSteps + 1)

InitTimespan ==
    /\ pc = "idle" /\ heap = EmptyHeap /\ Timespan = ZeroTimespan /\ State = ZeroState
    /\ currentStep = 0 /\ results = <<>> /\ Solver = "RK4" /\ change = EmptyMap
    /\ Diffs = <<>> /\ inputs = EmptyMap /\ eventers = <<>> /\ events = <<>>
    /\ Config = DefaultConfig /\ evIdx = 0 /\ eventsOn = FALSE /\ trace = InitTrace
    /\ call \in [fn : {"newTimespan"}, Start : TsStarts, End : TsEnds, Steps : TsSteps,
                  done : {FALSE}, panic : {FALSE}]

CallSetTimespan ==
    /\ call.fn = "newTimespan"
    /\ ~call.done
    /\ IF TimespanThrows(call.Start, call.End, call.Steps)
       THEN /\ call' = [call EXCEPT !.done = TRUE, !.panic = TRUE]
            /\ pc' = "panic"
            /\ UNCHANGED Timespan
       ELSE /\ call' = [call EXCEPT !.done = TRUE]
            /\ Timespan' = newTimespan(call.Start, call.End, call.Steps)
            /\ UNCHANGED pc
    /\ UNCHANGED <<heap, State, currentStep, results, Solver, change, Diffs, inputs, eventers,
                   events, Config, evIdx, eventsOn, trace>>

NextTimespan == CallSetTimespan

SpecTimespan == InitTimespan /\ [][NextTimespan]_vars

-----------------------------------------------------------------------------
(* StateDiff on its own: Init builds a State S with the X symbols theta and *)
(* w and the U symbol u and draws the Diffs F, the action calls StateDiff.  *)

SdValues == {I(0), I(1), I(2)}
SdTimes == {I(0), I(3)}
SdDiffs == UNION {[1..n -> DiffFns] : n \in 1..2}

InitStateDiff ==
    /\ pc = "idle" /\ Timespan = ZeroTimespan
    /\ currentStep = 0 /\ results = <<>> /\ Solver = "RK4" /\ change = EmptyMap
    /\ Diffs = <<>> /\ inputs = EmptyMap /\ eventers = <<>> /\ events = <<>>
    /\ Config = DefaultConfig /\ evIdx = 0 /\ eventsOn = FALSE /\ trace = InitTrace
    /\ \E order \in Orders({"theta", "w"}), xs \in [{"theta", "w"} -> SdValues],
          uv \in SdValues, t \in SdTimes, F \in SdDiffs :
          LET n == New(EmptyHeap)
              x1 == XEqual(n.H, n.s, order[1], xs[order[1]])
              x2 == XEqual(x1.H, x1.s, order[2], xs[order[2]])
              u1 == UEqual(x2.H, x2.s, "u", uv)
          IN  /\ heap = u1.H
              /\ State = SetTime(u1.s, t)
              /\ call = [fn |-> "StateDiff", F |-> F, done |-> FALSE, panic |-> FALSE, ret |-> ZeroState]

CallStateDiff ==
    /\ call.fn = "StateDiff"
    /\ ~call.done
    /\ \E r \in {StateDiff(heap, call.F, State)} :
          /\ heap' = r.H
          /\ call' = [call EXCEPT !.done = TRUE, !.panic = r.H.panic, !.ret = r.s]
    /\ UNCHANGED <<pc, Timespan, State, currentStep, results, Solver, change, Diffs, inputs, eventers,
                   events, Config, evIdx, eventsOn, trace>>

NextStateDiff == CallStateDiff

SpecStateDiff == InitStateDiff /\ [][NextStateDiff]_vars

-----------------------------------------------------------------------------
(* The setters of a State on their own: Init is New(), the action calls     *)
(* XEqual, UEqual, XSet or USet on the State.  call holds what was written: *)
(* X and U the value written last to each symbol, xsyms and usyms the       *)
(* symbols in the order they were first written with XEqual and UEqual.     *)

Setters == {"XEqual", "UEqual", "XSet", "USet"}

InitState ==
    /\ pc = "idle" /\ Timespan = ZeroTimespan
    /\ currentStep = 0 /\ results = <<>> /\ Solver = "RK4" /\ change = EmptyMap
    /\ Diffs = <<>> /\ inputs = EmptyMap /\ eventers = <<>> /\ events = <<>>
    /\ Config = DefaultConfig /\ evIdx = 0 /\ eventsOn = FALSE /\ trace = InitTrace
    /\ heap = New(EmptyHeap).H
    /\ State = New(EmptyHeap).s
    /\ call = [fn |-> "New", X |-> EmptyMap, U |-> EmptyMap, xsyms |-> <<>>, usyms |-> <<>>,
               panic |-> FALSE]

CallSetter(fn, sym, val) ==
    /\ call.fn \in Setters \cup {"New"}
    /\ ~call.panic
    /\ \E r \in {CASE fn = "XEqual" -> XEqual(heap, State, sym, val)
                    [] fn = "UEqual" -> UEqual(heap, State, sym, val)
                    [] fn = "XSet" -> XSet(heap, State, sym, val)
                    [] fn = "USet" -> USet(heap, State, sym, val)} :
          /\ heap' = r.H
          /\ State' = r.s
    /\ call' = CASE fn = "XEqual" ->
                       [call EXCEPT !.fn = fn,
                                    !.X = [k \in DOMAIN @ \cup {sym} |-> IF k = sym THEN val ELSE @[k]],
                                    !.xsyms = IF sym \in DOMAIN call.X THEN @ ELSE Append(@, sym)]
                 [] fn = "UEqual" ->
                       [call EXCEPT !.fn = fn,
                                    !.U = [k \in DOMAIN @ \cup {sym} |-> IF k = sym THEN val ELSE @[k]],
                                    !.usyms = IF sym \in DOMAIN call.U THEN @ ELSE Append(@, sym)]
                 [] fn = "XSet" ->
                       IF sym \notin DOMAIN call.X THEN [call EXCEPT !.fn = fn, !.panic = TRUE]
                       ELSE [call EXCEPT !.fn = fn, !.X[sym] = val]
                 [] fn = "USet" ->
                       IF sym \notin DOMAIN call.U THEN [call EXCEPT !.fn = fn, !.panic = TRUE]
                       ELSE [call EXCEPT !.fn = fn, !.U[sym] = val]
    /\ UNCHANGED <<pc, Timespan, currentStep, results, Solver, change, Diffs, inputs, eventers,
                   events, Config, evIdx, eventsOn, trace>>

NextState == \E fn \in Setters, sym \in {"theta", "w"}, val \in {I(1), I(2)} : CallSetter(fn, sym, val)

SpecState == InitState /\ [][NextState]_vars

-----------------------------------------------------------------------------
(* Clone and CloneBlank on their own: Init draws the State that is copied,  *)
(* CallClone makes the copy (results holds it), and CallOnCopy calls a      *)
(* setter or a vector operation on the copy, MaxCopyCalls times at most.     *)

InitClone ==
    /\ pc = "idle" /\ Timespan = ZeroTimespan
    /\ currentStep = 0 /\ results = <<>> /\ Solver = "RK4" /\ change = EmptyMap
    /\ Diffs = <<>> /\ inputs = EmptyMap /\ eventers = <<>> /\ events = <<>>
    /\ Config = DefaultConfig /\ evIdx = 0 /\ eventsOn = FALSE /\ trace = InitTrace
    /\ call = [fn |-> "New", calls |-> 0]
    /\ \E xs \in SUBSET {"theta"}, us \in SUBSET {"u"} :
       \E n \in {New(EmptyHeap)} :
       \E a \in {IF xs = {} THEN n ELSE XEqual(n.H, n.s, "theta", I(1))} :
       \E b \in {IF us = {} THEN a ELSE UEqual(a.H, a.s, "u", I(2))} :
          heap = b.H /\ State = b.s

CallClone(blank) ==
    /\ results = <<>>
    /\ \E c \in {IF blank THEN CloneBlank(heap, State, One) ELSE Clone(heap, State)} :
          heap' = c.H /\ results' = <<c.s>>
    /\ call' = [fn |-> IF blank THEN "CloneBlank" ELSE "Clone", calls |-> 0]
    /\ UNCHANGED <<pc, Timespan, State, currentStep, Solver, change, Diffs, inputs, eventers,
                   events, Config, evIdx, eventsOn, trace>>

CallOnCopy(fn, sym, val) ==
    /\ results # <<>>
    /\ ~heap.panic
    /\ call.calls < MaxCopyCalls
    /\ \E r \in {CASE fn = "XEqual" -> XEqual(heap, results[1], sym, val)
                    [] fn = "UEqual" -> UEqual(heap, results[1], sym, val)
                    [] fn = "XSet" -> XSet(heap, results[1], sym, val)
                    [] fn = "USet" -> USet(heap, results[1], sym, val)
                    [] fn = "SetTime" -> [H |-> heap, s |-> SetTime(results[1], val)]
                    [] fn = "Scale" -> [H |-> Scale(heap, val, results[1]), s |-> results[1]]
                    [] fn = "Add" -> [H |-> Add(heap, results[1], State), s |-> results[1]]} :
          heap' = r.H /\ results' = <<r.s>>
    /\ call' = [fn |-> fn, calls |-> call.calls + 1]
    /\ UNCHANGED <<pc, Timespan, State, currentStep, Solver, change, Diffs, inputs, eventers,
                   events, Config, evIdx, eventsOn, trace>>

NextClone ==
    \/ \E blank \in BOOLEAN : CallClone(blank)
    \/ \E fn \in Setters \cup {"SetTime", "Scale", "Add"}, sym \in {"theta", "w"}, val \in {I(1), I(2)} :
          CallOnCopy(fn, sym, val)

SpecClone == InitClone /\ [][NextClone]_vars

-----------------------------------------------------------------------------
(* The adaptive blocks of RKF45Solver, DormandPrinceSolver, RKF78Solver and *)
(* RKF10_12Solver on their own.                                             *)
(* Init draws the solver, Dt, Algorithm.Steps, Step.Min and Step.Max (with  *)
(* Error.Max > 0 and Step.Max > Step.Min the solver is adaptive); an        *)
(* attempt computes states[i+1] with the step length h, and the action      *)
(* draws the errRatio the attempt ends with, which is decided by the Diff   *)
(* functions.  call holds the locals i and h of the solver, n =             *)
(* len(states) - 1 and Algorithm.Steps; used and ratio are the h and the    *)
(* errRatio of the attempt made last, t is states[i].Time() less the time    *)
(* of the State the invocation began with.                                  *)

\* math.Pow(errRatio, .2) for the ratios drawn
FifthRoot(r) == CHOOSE q \in {R(1, 2), One, I(2)} : [n |-> q.n ^ 5, d |-> q.d ^ 5] = r

\* the adaptive block: hnew, the new Algorithm.Steps, and whether the
\* attempt is repeated (i--; continue)
AdaptiveBlock(h, steps, errRatio, Min, Max) ==
    With(RMul(R(9, 10), RMul(h, FifthRoot(errRatio))), LAMBDA x :
    With(IF RLt(x, Min) THEN Min ELSE x, LAMBDA lo :
    With(IF RLt(Max, lo) THEN Max ELSE lo, LAMBDA hnew :
    With(RMul(I(steps), FloatDiv(h, hnew)), LAMBDA st :
        [h |-> hnew,
         Steps |-> IF RLt(st, One) THEN 1 ELSE st.n \div st.d,
         repeat |-> RLt(errRatio, One) /\ hnew # Min]))))

\* the NaN of float64: every comparison with it is false
NaN == [n |-> 0, d |-> 0]

\* math.Pow(errRatio, 1./7.) for the positive ratios drawn
SeventhRoot(r) == CHOOSE q \in {R(1, 2), One, I(2)} : [n |-> q.n ^ 7, d |-> q.d ^ 7] = r

\* the adaptive block of RKF78Solver.  err78 is not made absolute, so its
\* maximum and with it errRatio can be negative: math.Pow of a negative base
\* and the exponent 1/7 is NaN, and so are math.Abs, math.Max and math.Min of
\* it.  Algorithm.Steps becomes int(NaN), see IntOfNaN
AdaptiveBlock78(h, steps, errRatio, Min, Max) ==
    IF h = NaN \/ errRatio = NaN \/ RLt(errRatio, Zero)
    THEN [h |-> NaN, Steps |-> 0, repeat |-> errRatio # NaN /\ RLt(errRatio, One)]
    ELSE With(RMul(R(8, 10), SeventhRoot(errRatio)), LAMBDA sc :
         With(IF RLt(sc, R(1, 8)) THEN R(1, 8) ELSE IF RLt(I(4), sc) THEN I(4) ELSE sc, LAMBDA scale :
         With(IF RLt(RMul(h, scale), Min) THEN Min ELSE RMul(h, scale), LAMBDA lo :
         With(IF RLt(Max, lo) THEN Max ELSE lo, LAMBDA hnew :
         With(RMul(I(steps), FloatDiv(h, hnew)), LAMBDA st :
             [h |-> hnew,
              Steps |-> IF RLt(st, One) THEN 1 ELSE st.n \div st.d,
              repeat |-> RLt(errRatio, One) /\ hnew # Min])))))

\* math.Pow(errRatio, 1./11.) for the positive ratios drawn
EleventhRoot(r) == CHOOSE q \in {R(1, 2), One, I(2)} : [n |-> q.n ^ 11, d |-> q.d ^ 11] = r

\* the adaptive block of RKF10_12Solver: its condition is `false && adaptive`
AdaptiveBlock10_12(h, steps, errRatio, Min, Max, adaptive) ==
    IF FALSE /\ adaptive
    THEN With(RMul(R(8, 10), EleventhRoot(errRatio)), LAMBDA sc :
         With(IF RLt(sc, R(1, 8)) THEN R(1, 8) ELSE IF RLt(I(4), sc) THEN I(4) ELSE sc, LAMBDA scale :
         With(IF RLt(RMul(h, scale), Min) THEN Min ELSE RMul(h, scale), LAMBDA lo :
         With(IF RLt(Max, lo) THEN Max ELSE lo, LAMBDA hnew :
         With(RMul(I(steps), FloatDiv(h, hnew)), LAMBDA st :
             [h |-> hnew,
              Steps |-> IF RLt(st, One) THEN 1 ELSE st.n \div st.d,
              repeat |-> RLt(errRatio, One) /\ hnew # Min])))))
    ELSE [h |-> h, Steps |-> steps, repeat |-> FALSE]

\* int(NaN) is left to the implementation by the language: the amd64 build
\* gives the smallest int64, the arm64 build 0.  The negative outcome stands
\* here as the smallest 32-bit integer but one
IntOfNaN == {0 - 2147483647, 0}

\* the errRatio an attempt can end with: with h NaN every stage is NaN
ErrRatios(solver, h) ==
    IF solver = "RKF78"
    THEN IF h = NaN THEN {NaN} ELSE {RNeg(One), R(1, 128), One, I(128)}
    ELSE IF solver = "RKF10_12" THEN {R(1, 2048), One, I(2048)}
    ELSE {R(1, 32), One, I(32)}

InitAdaptive ==
    /\ pc = "idle" /\ heap = EmptyHeap /\ Timespan = ZeroTimespan /\ State = ZeroState
    /\ currentStep = 0 /\ results = <<>> /\ change = EmptyMap
    /\ Diffs = <<>> /\ inputs = EmptyMap /\ eventers = <<>> /\ events = <<>>
    /\ Config = DefaultConfig /\ evIdx = 0 /\ eventsOn = FALSE /\ trace = InitTrace
    /\ Solver \in {"RKF45", "DormandPrince", "RKF78", "RKF10_12"}
    /\ \E dt \in {One, I(2)}, steps \in 1..MaxAlgSteps, Min \in {R(1, 4), R(1, 2)}, Max \in {One, I(2)} :
          call = [fn |-> "adaptive", i |-> 0, h |-> FloatDiv(dt, I(steps)), n |-> steps, Steps |-> steps,
                  Min |-> Min, Max |-> Max, used |-> Zero, ratio |-> One, attempts |-> 0,
                  Dt |-> dt, calls |-> 1, t |-> Zero]

Attempt(errRatio) ==
    /\ call.fn = "adaptive"
    /\ call.i < call.n
    /\ errRatio \in ErrRatios(Solver, call.h)
    /\ \E a \in {IF Solver = "RKF78"
                  THEN AdaptiveBlock78(call.h, call.Steps, errRatio, call.Min, call.Max)
                  ELSE IF Solver = "RKF10_12"
                  THEN AdaptiveBlock10_12(call.h, call.Steps, errRatio, call.Min, call.Max,
                                          RLt(Zero, call.Min) /\ RLt(call.Min, call.Max))
                  ELSE AdaptiveBlock(call.h, call.Steps, errRatio, call.Min, call.Max)} :
       \E n \in (IF a.h = NaN THEN IntOfNaN ELSE {a.Steps}) :
          call' = [call EXCEPT !.h = a.h, !.Steps = n,
                               !.i = IF a.repeat THEN @ ELSE @ + 1,
                               !.t = IF a.repeat THEN @
                                     ELSE IF call.h = NaN \/ @ = NaN THEN NaN ELSE RAdd(@, call.h),
                               !.used = call.h, !.ratio = errRatio, !.attempts = @ + 1]
    /\ UNCHANGED <<pc, heap, Timespan, State, currentStep, results, Solver, change, Diffs, inputs,
                   eventers, events, Config, evIdx, eventsOn, trace>>

\* the +Inf of float64
Inf == [n |-> 1, d |-> 0]

\* the solver is invoked for the next domain step, with the Algorithm.Steps
\* the invocation before left: make panics on a negative length, and Dt over
\* no Steps is +Inf
Invoke ==
    /\ call.fn = "adaptive"
    /\ call.i = call.n
    /\ call.calls < MaxBegins /\ call.Steps <= MaxAlgSteps
    /\ call' = IF call.Steps + 1 < 0 THEN [call EXCEPT !.fn = "panic", !.calls = @ + 1]
               ELSE [call EXCEPT !.i = 0, !.n = call.Steps, !.calls = @ + 1, !.t = Zero,
                                 !.h = IF call.Steps = 0 THEN Inf ELSE FloatDiv(call.Dt, I(call.Steps))]
    /\ UNCHANGED <<pc, heap, Timespan, State, currentStep, results, Solver, change, Diffs, inputs,
                   eventers, events, Config, evIdx, eventsOn, trace>>

NextAdaptive ==
    \/ \E errRatio \in UNION {ErrRatios(solver, h) : solver \in {"RKF45", "RKF78", "RKF10_12"}, h \in {One, NaN}} :
          Attempt(errRatio)
    \/ Invoke

SpecAdaptive == InitAdaptive /\ [][NextAdaptive]_vars

\* the loop of the solver goes on while it can
SpecAdaptiveFair == SpecAdaptive /\ WF_vars(NextAdaptive)

-----------------------------------------------------------------------------
(* The properties of the runs.                                              *)

\* the step is a call of Begin
BeginCalled == trace'.op = "Begin" /\ trace'.begins = trace.begins + 1

\* the X symbols of a State, as a set
XSymbolSet(H, s) == IF s.varmap = 0 THEN {} ELSE DOMAIN MapOf(H, s.varmap)

\* Steps, Domain, Solver and Timespan are what verifyConfig and verifyPreBegin accept
GoodConfig == Config.Steps >= 1 /\ Config.Domain # "" /\ Solver # "nil" /\ Timespan # ZeroTimespan

\* C1: a Begin called while the results of an earlier Begin are held panics,
\* appends nothing to the results and does not invoke the Solver.
C1_BeginOnResultsPanics ==
    [][(BeginCalled /\ Len(results) > 0)
         => (pc' = "panic" /\ results' = results /\ trace'.solverCalls = trace.solverCalls)]_vars

C1_Witness ==
    /\ trace.op = "Begin" /\ trace.begins = 2
    /\ pc = "panic" /\ Len(results) > 1 /\ trace.solverCalls > 0

\* C2: a Begin whose Diff keys are not exactly the X symbols of the State
\* (a key that is no X symbol, an X symbol without a Diff, no Diff at all, an
\* empty State) panics before the run: the results stay empty and the Solver
\* is not invoked.
C2_DiffKeysMustBeXSymbols ==
    [][(BeginCalled /\ Len(results) = 0 /\ DOMAIN change # XSymbolSet(heap, State))
         => (pc' = "panic" /\ Len(results') = 0 /\ trace'.solverCalls = trace.solverCalls)]_vars

C2_Witness ==
    /\ trace.op = "Begin" /\ pc = "panic" /\ Len(results) = 0 /\ GoodConfig
    /\ DOMAIN change = {"theta"} /\ XSymbolSet(heap, State) = {"theta", "w"}

\* C3: once EndSimulation was applied, at time t, the Solver is not invoked
\* again, nothing more is appended to the results, and the last entry of the
\* results has time t.
C3_EndSimulationStopsRun ==
    /\ [][trace.ended.on => (trace'.solverCalls = trace.solverCalls /\ Len(results') = Len(results))]_vars
    /\ [](trace.ended.on => Time(Last(results)) = trace.ended.t)

C3_Witness ==
    /\ trace.ended.on /\ pc = "done"
    /\ RLt(RAdd(Time(State), Timespan.stepLength), Timespan.end)

\* C4: every step of the loop of Begin taken after NewStepLength(h) was
\* applied in a running simulation advances the time by exactly h, and every
\* step taken before by the step length SetTimespan gave.
C4_StepLengthAfterEvent ==
    [][(trace'.op = "Step" /\ pc' # "panic")
         => RSub(Time(State'), Time(State))
              = IF trace.stepLength.on THEN trace.stepLength.h ELSE trace.dt0]_vars

C4_Witness ==
    /\ trace.op = "Step" /\ pc # "panic"
    /\ trace.stepLength.on /\ trace.stepLength.h = R(3, 4)
    /\ RLt(trace.stepLength.t0, Time(State))

C6_NoWorkBeforeConfigFailure ==
    [][(BeginCalled /\ ~GoodConfig)
         => /\ pc' = "panic"
            /\ heap'.inputEvals = 0 /\ heap'.diffEvals = 0
            /\ State' = State /\ heap'.arrs = heap.arrs /\ heap'.maps = heap.maps
            /\ trace'.solverCalls = trace.solverCalls]_vars

\* C7 as stated: newTimespan fails exactly when start >= end or steps < 1,
\* and otherwise returns End() = end, Len() = steps, Dt() = (end - start)/steps.
C7_FailsOnlyOnBadArguments ==
    (call.fn = "newTimespan" /\ call.done)
      => /\ call.panic <=> (RLe(call.End, call.Start) \/ call.Steps < 1)
         /\ ~call.panic => /\ End(Timespan) = call.End
                           /\ Len_(Timespan) = call.Steps
                           /\ RMul(Dt(Timespan), I(call.Steps)) = RSub(call.End, call.Start)

\* C7 amended: newTimespan fails exactly when start >= end, steps < 1, or the
\* quotient (end - start)/steps underflows to 0 (it is at most half the
\* smallest nonzero float64), and otherwise returns End() = end,
\* Len() = steps, Dt() = (end - start)/steps.
C7_FailsAlsoOnZeroStep ==
    (call.fn = "newTimespan" /\ call.done)
      => LET span == RSub(call.End, call.Start)
             underflows == RLe(RAdd(span, span), RMul(I(call.Steps), SmallestNonzeroFloat64))
         IN  /\ call.panic <=> (RLe(call.End, call.Start) \/ call.Steps < 1 \/ underflows)
             /\ ~call.panic => /\ End(Timespan) = call.End
                               /\ Len_(Timespan) = call.Steps
                               /\ RMul(Dt(Timespan), I(call.Steps)) = span

C7_Witness ==
    /\ call.fn = "newTimespan" /\ call.done /\ call.panic
    /\ RLt(call.Start, call.End) /\ call.Steps >= 1

\* C8: StateDiff(F, S), with one function of F for each X symbol of S,
\* returns a new State with the time of S, the X symbols of S in their order,
\* the U values of S, and as its i-th X value F[i] of the S it was given;
\* S keeps its values.
C8_StateDiffOnUnmodifiedState ==
    [][(call.fn = "StateDiff" /\ ~call.done /\ call'.done
          /\ Len(call.F) = Cardinality(XSymbolSet(heap, State)))
         => LET D == call'.ret
            IN  /\ ~call'.panic
                /\ Time(D) = Time(State)
                /\ XSymbols(heap', D) = XSymbols(heap, State)
                /\ USymbols(heap', D) = USymbols(heap, State)
                /\ Elems(heap', D.u) = Elems(heap, State.u)
                /\ D.x.n = Len(call.F)
                /\ \A i \in 1..Len(call.F) : Elems(heap', D.x)[i] = EvalFn(call.F[i], heap, State)
                /\ D.x.a # State.x.a /\ D.u.a # State.u.a
                /\ State' = State
                /\ Elems(heap', State.x) = Elems(heap, State.x)
                /\ Elems(heap', State.u) = Elems(heap, State.u)
                /\ XSymbols(heap', State) = XSymbols(heap, State)]_vars

C8_Witness ==
    /\ call.fn = "StateDiff" /\ call.done /\ ~call.panic
    /\ XSymbols(heap, State) = <<"w", "theta">>
    /\ call.F = <<"one", "X_w">>
    /\ X(heap, State, "w") = I(2)
    /\ X(heap, call.ret, "w") = I(1) /\ X(heap, call.ret, "theta") = I(2)

\* C9: with the Diff theta' = U(u), the Input u = 1 and theta = 0 at the
\* start, every entry of the results has theta = time - start, start being
\* the start SetTimespan gave.
C9_ThetaIsTimeSinceStart ==
    (/\ DOMAIN change = {"theta"} /\ Diffs = <<"U_u">>
     /\ DOMAIN inputs = {"u"} /\ inputs["u"] = "one")
      => \A i \in 1..Len(results) :
            X(heap, results[i], "theta") = RSub(Time(results[i]), trace.start0)

\* C10: Results(sym) returns one value for each entry of the results, in
\* their order: the time of the entry when sym is the Domain, its U value
\* when sym is a U symbol, its X value when sym is an X symbol; it panics
\* when sym is none of them.
C10_ResultsColumn ==
    [][trace'.op = "Results"
         => LET sym == call'.sym
                usyms == DOMAIN MapOf(heap, State.inputmap)
                xsyms == XSymbolSet(heap, State)
                ucol == [i \in 1..Len(results) |->
                            heap.arrs[results[i].u.a][MapOf(heap, results[i].inputmap)[sym] + 1]]
                xcol == [i \in 1..Len(results) |->
                            heap.arrs[results[i].x.a][MapOf(heap, results[i].varmap)[sym] + 1]]
            IN  IF sym = Config.Domain
                THEN ~call'.panic /\ call'.ret = [i \in 1..Len(results) |-> results[i].time]
                ELSE IF sym \in usyms THEN ~call'.panic /\ call'.ret = ucol
                ELSE IF sym \in xsyms THEN ~call'.panic /\ call'.ret = xcol
                ELSE call'.panic]_vars

C10_Witness ==
    /\ call.fn = "Results" /\ call.sym = "u" /\ ~call.panic
    /\ Len(call.ret) = Len(results) /\ Len(results) > 2
    /\ \A i \in 1..Len(results) : call.ret[i] = One

\* C11: while Begin has not returned, every read of the result history fails:
\* Results, States and ForEachState called from a handler panic.
C11_ReadsFailDuringRun ==
    [][(pc = "events" /\ trace'.op \in {"Results", "States", "ForEachState"}) => call'.panic]_vars

\* C12: a run without handlers over a Timespan of N steps with
\* Algorithm.Steps = m has invoked the Solver N times when Begin returns, and
\* the results hold N*m + 1 entries with strictly increasing times, the last
\* of them at the end of the domain.
C12_StepsAndEntries ==
    (pc = "done" /\ ~eventsOn)
        => /\ trace.solverCalls = Len_(Timespan)
           /\ Len(results) = Len_(Timespan) * Config.Steps + 1
           /\ \A i \in 1..(Len(results) - 1) : RLt(Time(results[i]), Time(results[i + 1]))
           /\ Time(Last(results)) = End(Timespan)

\* C13: handleEvents never invokes a handler whose Event method has returned
\* an action; a handler that returned nil stays registered, and when a pass
\* of handleEvents ends every handler still registered was invoked in it.
C13_FiredOnceNilAgain ==
    [][trace'.op = "HandleEvent" /\ pc = "events"
         => /\ eventers[evIdx + 1] \notin trace.fired
            /\ eventers[evIdx + 1] \notin trace'.fired => eventers' = eventers
            /\ pc' # "panic" => Range(eventers') = Range(eventers) \ trace'.fired
            /\ pc' \in {"loop", "done"} => Range(eventers') \subseteq trace'.invoked]_vars

\* in the second pass the handler that returned nil in the first is invoked,
\* the one that was removed in the first is not
C13_Witness ==
    /\ trace.op = "HandleEvent" /\ trace.solverCalls = 2
    /\ remover \in trace.fired /\ remover \notin trace.invoked
    /\ marker \in trace.invoked

HistoryValues(H, res) ==
    [i \in 1..Len(res) |->
        [time |-> Time(res[i]),
         x |-> [sym \in XSymbolSet(H, res[i]) |-> X(H, res[i], sym)],
         u |-> [sym \in DOMAIN MapOf(H, res[i].inputmap) |-> U(H, res[i], sym)]]]

\* C15: the result history does not depend on the order the maps are
\* iterated in: whatever order Begin and setInputs range over the Input map
\* in, a Begin and a pass of its loop leave the same times, X values and U
\* values in the results, also when an Input function reads the U value of
\* another Input.
C15_OrderIndependent ==
    /\ [][(BeginCalled /\ pc' # "panic")
            => \A o1, o2 \in Orders(DOMAIN inputs), symsX \in Orders(DOMAIN change) :
                  With(BeginCall(o1, o2, symsX), LAMBDA b :
                      HistoryValues(b.H, b.results) = HistoryValues(heap', results'))]_vars
    /\ [][(trace'.op = "Step" /\ pc = "loop" /\ pc' # "panic")
            => \A order \in Orders(DOMAIN inputs) :
                  With(Solve(Solver, heap, Diffs, State, CurrentTime(results), Dt(Timespan), Config.Steps), LAMBDA sol :
                  With(setInputs(sol.H, Last(sol.states), inputs, order), LAMBDA in :
                      HistoryValues(in.H, results \o Tail(sol.states))
                          = HistoryValues(heap', results')))]_vars

\* C16: after any sequence of XEqual, UEqual, XSet and USet on a State made
\* by New, X(sym) and U(sym) return the value written last, XSymbols() and
\* USymbols() list the symbols in the order they were first created, the
\* indices are 0..n-1 without duplicates, and XVector() and UVector() hold
\* one element per symbol in that order; XSet and USet of a symbol the State
\* does not hold panic.
C16_SettersAndGetters ==
    call.fn \in Setters =>
        /\ heap.panic = call.panic
        /\ XSymbols(heap, State) = call.xsyms
        /\ USymbols(heap, State) = call.usyms
        /\ \A i \in 1..Len(call.xsyms) : MapOf(heap, State.varmap)[call.xsyms[i]] = i - 1
        /\ \A i \in 1..Len(call.usyms) : MapOf(heap, State.inputmap)[call.usyms[i]] = i - 1
        /\ \A i, j \in 1..Len(call.xsyms) : call.xsyms[i] = call.xsyms[j] => i = j
        /\ \A i, j \in 1..Len(call.usyms) : call.usyms[i] = call.usyms[j] => i = j
        /\ \A sym \in DOMAIN call.X : X(heap, State, sym) = call.X[sym]
        /\ \A sym \in DOMAIN call.U : U(heap, State, sym) = call.U[sym]
        /\ With(XVector(heap, State), LAMBDA v :
               Elems(v.H, v.sl) = [i \in 1..Len(call.xsyms) |-> call.X[call.xsyms[i]]])
        /\ With(UVector(heap, State), LAMBDA v :
               Elems(v.H, v.sl) = [i \in 1..Len(call.usyms) |-> call.U[call.usyms[i]]])

\* w was created before theta and then overwritten with XSet
C16_Witness ==
    /\ call.fn = "XSet" /\ ~call.panic
    /\ call.xsyms = <<"w", "theta">> /\ call.X["w"] = I(2) /\ call.X["theta"] = I(1)
    /\ call.usyms = <<"theta">>
    /\ XSymbols(heap, State) = <<"w", "theta">> /\ X(heap, State, "w") = I(2)

\* C17: from the start of the stepping on, every entry of the results and the
\* live State hold the X symbols the first entry holds, in the same order,
\* and one X value per symbol, also after DiffChangeFromMap and NewStepLength.
C17_XSymbolsFixed ==
    pc \in {"loop", "events", "done"} =>
        \A i \in 1..(Len(results) + 1) :
            With(IF i > Len(results) THEN State ELSE results[i], LAMBDA e :
                /\ XSymbols(heap, e) = XSymbols(heap, results[1])
                /\ e.x.n = Len(XSymbols(heap, results[1]))
                /\ \A k \in 1..e.x.n : XSymbols(heap, e)[k] # "")

C17_Witness ==
    /\ pc = "done" /\ Len(results) >= 3 /\ trace.stepLength.on /\ Len(events) > 0
    /\ XSymbols(heap, State) = <<"theta", "w">> /\ State.x.n = 2

\* C18: a write to the live State does not change a stored entry: after a
\* pass of the loop every entry of the results holds the X and U values it
\* held when it was appended (the older entries those before the pass, the
\* new ones those the Solver returned), whatever setInputs wrote since.
C18_ResultsNotShared ==
    [][(trace'.op = "Step" /\ pc = "loop" /\ pc' # "panic")
         => With(Solve(Solver, heap, Diffs, State, CurrentTime(results), Dt(Timespan), Config.Steps), LAMBDA sol :
                \A i \in 1..Len(results') :
                    /\ Elems(heap', results'[i].x)
                           = Elems(IF i <= Len(results) THEN heap ELSE sol.H, results'[i].x)
                    /\ Elems(heap', results'[i].u)
                           = Elems(IF i <= Len(results) THEN heap ELSE sol.H, results'[i].u))]_vars

\* C19: a Begin that gets as far as comparing the Diff map with the X symbols
\* and finds them different panics with a message that names one of the
\* symbols that differ and tells how many do: the keys of the Diff map that
\* are no X symbol of the State or, where there is none, the X symbols
\* without a Diff.
C19_FailureNamesSymbol ==
    [][(/\ BeginCalled /\ Len(results) = 0 /\ GoodConfig
        /\ XSymbolSet(heap, State) # {}
        /\ DOMAIN change # XSymbolSet(heap, State))
         => With(IF DOMAIN change \subseteq XSymbolSet(heap, State)
                 THEN XSymbolSet(heap, State) \ DOMAIN change
                 ELSE DOMAIN change \ XSymbolSet(heap, State), LAMBDA differ :
                /\ pc' = "panic"
                /\ trace'.failure.sym \in differ
                /\ trace'.failure.cases + 1 = Cardinality(differ))]_vars

\* C20: in the adaptive mode an attempt that ends out of tolerance
\* (errRatio < 1) is accepted only when the step length it was computed with
\* was Step.Min already; every other such attempt leaves the index i where it
\* is and is repeated with a smaller h.
C20_AcceptedOnlyAtMin ==
    [][(Solver \in {"RKF45", "DormandPrince"} /\ call'.attempts = call.attempts + 1
         /\ RLt(call'.ratio, One))
         => IF call.h = call.Min THEN call'.i = call.i + 1
            ELSE call'.i = call.i /\ RLt(call'.h, call.h)]_vars

\* C21: with adaptive stepping configured every invocation of RKF45Solver,
\* DormandPrinceSolver and RKF78Solver returns: an attempt that is repeated
\* leaves a step length h that is strictly lower than the one it was computed
\* with and not below Step.Min, no invocation panics, and in each the index
\* i reaches len(states) - 1 and stays there once no invocation follows.
C21_AdaptiveLoopEnds ==
    /\ [][(call'.attempts = call.attempts + 1 /\ call'.i = call.i)
            => (RLt(call'.h, call.h) /\ RLe(call.Min, call'.h))]_vars
    /\ [](call.fn # "panic")
    /\ <>[](call.i = call.n)

\* C22: an invocation of a solver advances one domain step: when it returns,
\* the last of the len(states) = Algorithm.Steps + 1 states it computed has
\* the time of the State it began with plus Dt().
C22_OneDomainStep ==
    (call.fn = "adaptive" /\ call.i = call.n /\ call.n > 0) => call.t = call.Dt

\* C23: with adaptive stepping configured RKF10_12Solver has the adaptive
\* structure of RKF78Solver: an attempt that ends out of tolerance
\* (errRatio < 1) with a step length above Step.Min leaves a lower step
\* length, and is repeated unless that step length is Step.Min.
C23_RKF10_12Adapts ==
    [][(/\ Solver = "RKF10_12" /\ call'.attempts = call.attempts + 1
        /\ RLt(call'.ratio, One) /\ RLt(call.Min, call.h))
         => (RLt(call'.h, call.h) /\ (call'.h # call.Min => call'.i = call.i))]_vars

\* C24: DirectIntegrationSolver chains its sub-steps: every state it returns
\* after the first is that before it plus h/2 times the sum of the
\* derivative at the state before it and the derivative at the state before
\* that (for the first sub-step, the derivative at the first state twice).
C24_DirectIntegrationChains ==
    [][(pc = "loop" /\ pc' # "panic" /\ Solver = "DirectIntegration" /\ Len(results') > Len(results))
         => \A j \in (Len(results) + 1)..Len(results') : \A i \in 1..Len(Diffs) :
               X(heap', results'[j], XSymbols(heap', State')[i])
                   = RAdd(X(heap', results'[j - 1], XSymbols(heap', State')[i]),
                          RMul(RAdd(EvalFn(Diffs[i], heap', results'[j - 1]),
                                    EvalFn(Diffs[i], heap', results'[IF j - 1 = Len(results) THEN j - 1 ELSE j - 2])),
                               RMul(FloatDiv(Dt(Timespan), I(Config.Steps)), R(1, 2))))]_vars

\* C25: once the action EndSimulation was applied, the event pass it was
\* applied in is over: no handler that stands after the ending one is
\* evaluated in that pass, and no action of such a handler is applied or
\* recorded in the event history.
C25_EndSimulationEndsPass ==
    [][(pc = "events" /\ trace.ended.on)
         => (trace'.invoked = trace.invoked /\ trace'.fired = trace.fired /\ events' = events)]_vars

C27_ReplacesDiffsAndInputs ==
    [][(/\ pc = "events" /\ trace'.invoked # trace.invoked
        /\ eventers[evIdx + 1].act = "DiffChangeFromMap"
        /\ RLe(eventers[evIdx + 1].at, Time(State))
        /\ DOMAIN eventers[evIdx + 1].newDiff \subseteq (XSymbolSet(heap, State) \cup DOMAIN inputs))
         => /\ pc' # "panic"
            /\ Diffs' = [i \in 1..Len(Diffs) |->
                            IF XSymbols(heap, State)[i] \in DOMAIN eventers[evIdx + 1].newDiff
                            THEN eventers[evIdx + 1].newDiff[XSymbols(heap, State)[i]] ELSE Diffs[i]]
            /\ inputs' = [k \in DOMAIN inputs |->
                             IF k \in DOMAIN eventers[evIdx + 1].newDiff
                             THEN eventers[evIdx + 1].newDiff[k] ELSE inputs[k]]]_vars

\* C28: a call on the copy that Clone or CloneBlank made leaves the State
\* that was copied as it was: its X and U values, its time, its symbol lists
\* and what its lookups find.
C28_CopyIsIndependent ==
    [][(results # <<>> /\ results' # <<>>)
         => /\ Elems(heap', State'.x) = Elems(heap, State.x)
            /\ Elems(heap', State'.u) = Elems(heap, State.u)
            /\ Time(State') = Time(State)
            /\ XSymbols(heap', State') = XSymbols(heap, State)
            /\ USymbols(heap', State') = USymbols(heap, State)
            /\ \A sym \in {"theta", "w", "u"} :
                  /\ X(heap', State', sym) = X(heap, State, sym)
                  /\ U(heap', State', sym) = U(heap, State, sym)]_vars

\* C29: while Begin runs and after it returned, every state of the results
\* carries for every Input that depends on the time and the X values alone
\* the value of that Input on this very state, the states between two
\* domain steps (Algorithm.Steps > 1) included.
C29_InputsOnEveryState ==
    (pc \in {"loop", "events", "done"} /\ \A sym \in DOMAIN inputs : inputs[sym] \in {"one", "time"})
        => \A i \in 1..Len(results) : \A sym \in DOMAIN inputs :
              U(heap, results[i], sym) = EvalFn(inputs[sym], heap, results[i])

\* C30: in a pass of handleEvents the handlers are evaluated one after the
\* other in the order they are registered in, each on the current State and
\* none twice: the handler evaluated was not evaluated in this pass yet, all
\* that stand before it were and none that stands after it; it fires exactly
\* when the State has reached its time, and then it alone leaves the list.
\* When the pass ends every handler still registered was evaluated in it.
C30_EachHandlerOnceInOrder ==
    [][(trace'.op = "HandleEvent" /\ pc = "events")
         => /\ eventers[evIdx + 1] \notin trace.invoked
            /\ \A j \in 1..Len(eventers) : (eventers[j] \in trace.invoked) = (j <= evIdx)
            /\ (eventers[evIdx + 1] \in trace'.fired) = RLe(eventers[evIdx + 1].at, Time(State))
            /\ pc' # "panic"
                  => eventers' = IF eventers[evIdx + 1] \in trace'.fired
                                 THEN SubSeq(eventers, 1, evIdx) \o SubSeq(eventers, evIdx + 2, Len(eventers))
                                 ELSE eventers
            /\ pc' \in {"loop", "done"} => \A j \in 1..Len(eventers') : eventers'[j] \in trace'.invoked]_vars

\* a pass has ended in which the first handler fired and was removed and the
\* handler after it was evaluated and stays registered
C30_Witness ==
    /\ trace.op = "HandleEvent" /\ pc \in {"loop", "done"} /\ trace.solverCalls = 1
    /\ remover \in trace.fired /\ remover \in trace.invoked
    /\ eventers = <<marker>> /\ marker \in trace.invoked /\ marker \notin trace.fired

====
